---- MODULE Spec2Model ----
(***************************************************************************)
(* HolidayService (app/services/holiday_service.py): the year-suitability  *)
(* ranker, the holiday resolver, the weekend-workday merger and the TTL    *)
(* cache in front of them, over scrapers seen through the BaseScraper      *)
(* interface (app/scrapers/base.py).                                       *)
(***************************************************************************)
EXTENDS Integers, Sequences, FiniteSets, TLC

VARIABLES now, ticks, currentYear, cache, inY, inH, inW, pending, result, log, served, hist,
          stubs, rank, check, req, env, svc, net

vars == <<now, ticks, currentYear, cache, inY, inH, inW, pending, result, log, served, hist,
          stubs, rank, check, req, env, svc, net>>

\* ------------------------------------------------------------------ bounds

\* longest list a scraper returns in one call
MaxLen == 2

\* longest scraper list handed to the ranker on its own
MaxList == 3

\* number of clock advances in one behaviour
MaxTicks == 2

\* ------------------------------------------------------- program constants

\* TTLCache(maxsize=100, ttl=3600)
maxsize == 100

ttl == 3600

\* ------------------------------------------------------------------- dates

\* a datetime.date is the integer yyyymmdd; date order is integer order
YearOf(d) == d \div 10000

MonthOf(d) == (d \div 100) % 100

DayOf(d) == d % 100

\* days since 1970-01-01 of a proleptic Gregorian date
DaysFromCivil(d) ==
  LET y   == IF MonthOf(d) <= 2 THEN YearOf(d) - 1 ELSE YearOf(d)
      mp  == IF MonthOf(d) > 2 THEN MonthOf(d) - 3 ELSE MonthOf(d) + 9
      era == y \div 400
      yoe == y - era * 400
      doy == (153 * mp + 2) \div 5 + DayOf(d) - 1
      doe == yoe * 365 + yoe \div 4 - yoe \div 100 + doy
  IN  era * 146097 + doe - 719468

\* date.weekday(): Monday = 0 .. Sunday = 6 (1970-01-01 was a Thursday)
weekday(d) == (DaysFromCivil(d) + 3) % 7

\* dates a holiday scraper may report: Sat 2025-03-15, Thu 2025-05-01, Thu 2026-01-01
HDates == {20250315, 20250501, 20260101}

\* dates a workday scraper may report:
\* Fri 2025-05-16, Sat 2025-05-17, Sat 2025-10-18, Sat 2026-01-10
WDates == {20250516, 20250517, 20251018, 20260110}

\* ---------------------------------------------------------------- scrapers

\* a string is the sequence of its characters; os.getenv gives None (here
\* the one-element sequence <<"None">>, which no string is) for a variable
\* that is not set
None == <<"None">>

IsSpace(c) == c \in {" ", "\t", "\n"}

\* str.strip(): white space taken off both ends
RECURSIVE lstrip(_)
lstrip(str) == IF str # <<>> /\ IsSpace(Head(str)) THEN lstrip(Tail(str)) ELSE str

RECURSIVE rstrip(_)
rstrip(str) ==
  IF str # <<>> /\ IsSpace(str[Len(str)]) THEN rstrip(SubSeq(str, 1, Len(str) - 1)) ELSE str

strip(str) == rstrip(lstrip(str))

\* str.lower(), on the letters of the words looked for
LowerChar(c) ==
  CASE c = "T" -> "t" [] c = "R" -> "r" [] c = "U" -> "u" [] c = "E" -> "e"
    [] c = "Y" -> "y" [] c = "S" -> "s" [] c = "N" -> "n" [] c = "O" -> "o"
    [] OTHER -> c

lower(str) == [i \in 1..Len(str) |-> LowerChar(str[i])]

\* the test of INCLUDE_PUBLICHOLIDAYS_FOR_WORKDAYS that only lower-cases
include_publicholidays_for_workdaysNoStrip(e) ==
  lower(IF e = None \/ e = <<>> THEN <<>> ELSE e)
    \in {<<"1">>, <<"t", "r", "u", "e">>, <<"y", "e", "s">>}

\* (os.getenv("INCLUDE_PUBLICHOLIDAYS_FOR_WORKDAYS") or "").strip().lower()
\*   in {"1", "true", "yes"}
include_publicholidays_for_workdays(e) ==
  lower(strip(IF e = None \/ e = <<>> THEN <<>> ELSE e))
    \in {<<"1">>, <<"t", "r", "u", "e">>, <<"y", "e", "s">>}

\* HolidayService.__init__ when the variable has value e: the two lists of
\* scrapers, by scraper name, in registration order (two of the holiday
\* scrapers and two of the workday scrapers stand for each list)
HolidayService(e) ==
  [holiday_scrapers |-> <<"PontosIdo.com", "PublicHolidays.hu">>,
   workday_scrapers |-> <<"PontosIdo.com", "DailyNewsHungary">>
                          \o (IF include_publicholidays_for_workdays(e)
                              THEN <<"PublicHolidays.hu">> ELSE <<>>)]

\* the lists of the one service object
holiday_scrapers == svc.holiday_scrapers

workday_scrapers == svc.workday_scrapers

HS == {holiday_scrapers[i] : i \in 1..Len(holiday_scrapers)}

WS == {workday_scrapers[i] : i \in 1..Len(workday_scrapers)}

\* the class attributes; any other BaseScraper subclass has the offsets its
\* class sets (stubs)
min_year_offset(s) ==
  CASE s = "PontosIdo.com"     -> 0 - 3
    [] s = "PublicHolidays.hu" -> 0 - 2
    [] s = "DailyNewsHungary"  -> 0 - 2
    [] OTHER                   -> stubs[s][1]

max_year_offset(s) ==
  CASE s = "PontosIdo.com"     -> 1
    [] s = "PublicHolidays.hu" -> 3
    [] s = "DailyNewsHungary"  -> 2
    [] OTHER                   -> stubs[s][2]

\* get_url: PontosIdo and PublicHolidays serve every year from one page,
\* DailyNewsHungary formats the year into its base_url
get_url(s, year) ==
  IF s \in {"PontosIdo.com", "PublicHolidays.hu"}
  THEN [base |-> s, year |-> 0]
  ELSE [base |-> s, year |-> year]

Abs(x) == IF x < 0 THEN 0 - x ELSE x

Min(a, b) == IF a <= b THEN a ELSE b

supports_year(s, year, cy) ==
  (cy + min_year_offset(s)) <= year /\ year <= (cy + max_year_offset(s))

\* the distance measured to the lower edge of the window only
get_year_distanceLowerEdge(s, year, cy) ==
  IF supports_year(s, year, cy) THEN 0
  ELSE Abs(year - (cy + min_year_offset(s)))

get_year_distance(s, year, cy) ==
  IF supports_year(s, year, cy) THEN 0
  ELSE Min(Abs(year - (cy + min_year_offset(s))), Abs(year - (cy + max_year_offset(s))))

\* list.index(s): position of the first occurrence
index(scrapers, s) ==
  CHOOSE i \in 1..Len(scrapers) :
    scrapers[i] = s /\ \A j \in 1..(i - 1) : scrapers[j] # s

\* tuple comparison of the sort keys (distance, index)
KeyLess(a, b) == a[1] < b[1] \/ (a[1] = b[1] /\ a[2] < b[2])

RankKey(scrapers, s, year, cy) == <<get_year_distance(s, year, cy), index(scrapers, s)>>

\* sorted(): stable, an element goes after every element whose key is not greater
RECURSIVE InsertRanked(_, _, _, _, _)
InsertRanked(sorted, s, scrapers, year, cy) ==
  IF sorted = <<>> THEN <<s>>
  ELSE IF KeyLess(RankKey(scrapers, s, year, cy), RankKey(scrapers, Head(sorted), year, cy))
       THEN <<s>> \o sorted
       ELSE <<Head(sorted)>> \o InsertRanked(Tail(sorted), s, scrapers, year, cy)

RECURSIVE RankPrefix(_, _, _, _)
RankPrefix(scrapers, n, year, cy) ==
  IF n = 0 THEN <<>>
  ELSE InsertRanked(RankPrefix(scrapers, n - 1, year, cy), scrapers[n], scrapers, year, cy)

\* the ranking leaving out the scrapers that do not support the year
get_scrapers_for_yearSupportedOnly(scrapers, year, cy) ==
  SelectSeq(RankPrefix(scrapers, Len(scrapers), year, cy),
            LAMBDA s : supports_year(s, year, cy))

get_scrapers_for_year(scrapers, year, cy) == RankPrefix(scrapers, Len(scrapers), year, cy)

\* ------------------------------------------- what a scraper call gives back

\* Holiday(date, name) and WorkDay(date, reason) as the i-th entry of the list
\* scraper s returns; name / reason stand for everything a record carries
\* besides its date
Holiday(s, d, i) == [date |-> d, name |-> <<s, i>>]

WorkDay(s, d, i) == [date |-> d, reason |-> <<s, i>>]

SeqsUpTo(S, n) == UNION {[1..k -> S] : k \in 0..n}

\* BaseScraper.scrape_holidays / scrape_weekend_workdays as called from
\* scrape(): either call raises or returns a list; wraised is read only when
\* scrape_holidays returned
HOutcomes(D, n) ==
  {[raised |-> TRUE, dates |-> <<>>, wraised |-> FALSE]}
    \cup {[raised |-> FALSE, dates |-> l, wraised |-> b] : l \in SeqsUpTo(D, n), b \in BOOLEAN}

\* BaseScraper.scrape_weekend_workdays as called from _scrape_workdays
WOutcomes(D, n) ==
  {[raised |-> TRUE, dates |-> <<>>]}
    \cup {[raised |-> FALSE, dates |-> l] : l \in SeqsUpTo(D, n)}

Call(list, s, call, raised) == [list |-> list, src |-> s, call |-> call, raised |-> raised]

SourceInfo(name, url, year, t) ==
  [name |-> name, url |-> url, year_coverage |-> year, scraped_at |-> t]

\* BaseScraper.scrape: holidays, then workdays, then the SourceInfo; an
\* exception of either call leaves scrape() before anything is returned
scrape(s, year, o, t) ==
  IF o.raised
  THEN [raised |-> TRUE, holidays |-> <<>>, source |-> <<>>,
        log |-> <<Call("holiday", s, "scrape_holidays", TRUE)>>]
  ELSE IF o.wraised
  THEN [raised |-> TRUE, holidays |-> <<>>, source |-> <<>>,
        log |-> <<Call("holiday", s, "scrape_holidays", FALSE),
                  Call("holiday", s, "scrape_weekend_workdays", TRUE)>>]
  ELSE [raised |-> FALSE,
        holidays |-> [i \in 1..Len(o.dates) |-> Holiday(s, o.dates[i], i)],
        source |-> <<SourceInfo(s, get_url(s, year), year, t)>>,
        log |-> <<Call("holiday", s, "scrape_holidays", FALSE),
                  Call("holiday", s, "scrape_weekend_workdays", FALSE)>>]

\* ---------------------------------------------------------- holiday resolver

\* the for loop accepting the first scraper that returns, empty list or not
RECURSIVE ResolveFromAcceptEmpty(_, _, _, _, _)
ResolveFromAcceptEmpty(ranked, i, year, h, t) ==
  IF i > Len(ranked) THEN [holidays |-> <<>>, source |-> <<>>, log |-> <<>>]
  ELSE LET r == scrape(ranked[i], year, h[ranked[i]], t)
       IN  IF ~r.raised
           THEN [holidays |-> r.holidays, source |-> r.source, log |-> r.log]
           ELSE LET rest == ResolveFromAcceptEmpty(ranked, i + 1, year, h, t)
                IN  [rest EXCEPT !.log = r.log \o @]

\* the for loop that, when no scraper is accepted, hands back the SourceInfo
\* of the last scraper that answered
RECURSIVE ResolveFromKeepSource(_, _, _, _, _)
ResolveFromKeepSource(ranked, i, year, h, t) ==
  IF i > Len(ranked) THEN [holidays |-> <<>>, source |-> <<>>, log |-> <<>>]
  ELSE LET r == scrape(ranked[i], year, h[ranked[i]], t)
       IN  IF ~r.raised /\ r.holidays # <<>>
           THEN [holidays |-> r.holidays, source |-> r.source, log |-> r.log]
           ELSE LET rest == ResolveFromKeepSource(ranked, i + 1, year, h, t)
                IN  [holidays |-> rest.holidays,
                     source   |-> IF rest.holidays = <<>> /\ rest.source = <<>> /\ ~r.raised
                                  THEN r.source ELSE rest.source,
                     log      |-> r.log \o rest.log]

\* the for loop of _scrape_holidays from position i of the ranked list; the
\* Optional[SourceInfo] is a sequence of length 0 or 1
RECURSIVE ResolveFrom(_, _, _, _, _)
ResolveFrom(ranked, i, year, h, t) ==
  IF i > Len(ranked) THEN [holidays |-> <<>>, source |-> <<>>, log |-> <<>>]
  ELSE LET r == scrape(ranked[i], year, h[ranked[i]], t)
       IN  IF ~r.raised /\ r.holidays # <<>>
           THEN [holidays |-> r.holidays, source |-> r.source, log |-> r.log]
           ELSE LET rest == ResolveFrom(ranked, i + 1, year, h, t)
                IN  [rest EXCEPT !.log = r.log \o @]

scrape_holidays(year, cy, h, t) ==
  ResolveFrom(get_scrapers_for_year(holiday_scrapers, year, cy), 1, year, h, t)

\* ----------------------------------------------------------- workday merger

\* the membership test looking at the latest entry only
HasDateLastOnly(all, d) == Len(all) > 0 /\ all[Len(all)].date = d

HasDate(all, d) == \E k \in 1..Len(all) : all[k].date = d

\* the inner loop letting a later record replace the one accepted for its date
RECURSIVE AddWorkdaysOverwrite(_, _, _, _)
AddWorkdaysOverwrite(all, s, dates, i) ==
  IF i > Len(dates) THEN all
  ELSE AddWorkdaysOverwrite(
         IF \E k \in 1..Len(all) : all[k].date = dates[i]
         THEN [k \in 1..Len(all) |->
                 IF all[k].date = dates[i] THEN WorkDay(s, dates[i], i) ELSE all[k]]
         ELSE Append(all, WorkDay(s, dates[i], i)),
         s, dates, i + 1)

\* the inner loop: all_workdays is a dict keyed by date, kept in insertion order
RECURSIVE AddWorkdays(_, _, _, _)
AddWorkdays(all, s, dates, i) ==
  IF i > Len(dates) THEN all
  ELSE AddWorkdays(IF HasDate(all, dates[i]) THEN all
                   ELSE Append(all, WorkDay(s, dates[i], i)),
                   s, dates, i + 1)

\* the for loop given up at the first scraper that raises
RECURSIVE MergeFromStopOnError(_, _, _, _)
MergeFromStopOnError(ranked, i, w, all) ==
  IF i > Len(ranked) THEN [all |-> all, log |-> <<>>]
  ELSE LET s == ranked[i]
       IN  IF w[s].raised
           THEN [all |-> all, log |-> <<Call("workday", s, "scrape_weekend_workdays", TRUE)>>]
           ELSE LET rest == MergeFromStopOnError(ranked, i + 1, w,
                                                 AddWorkdays(all, s, w[s].dates, 1))
                IN  [rest EXCEPT
                       !.log = <<Call("workday", s, "scrape_weekend_workdays", FALSE)>> \o @]

\* the for loop of _scrape_workdays from position i of the ranked list
RECURSIVE MergeFrom(_, _, _, _)
MergeFrom(ranked, i, w, all) ==
  IF i > Len(ranked) THEN [all |-> all, log |-> <<>>]
  ELSE LET s    == ranked[i]
           rest == MergeFrom(ranked, i + 1, w,
                             IF w[s].raised THEN all ELSE AddWorkdays(all, s, w[s].dates, 1))
       IN  [rest EXCEPT !.log = <<Call("workday", s, "scrape_weekend_workdays", w[s].raised)>> \o @]

\* sorted(..., key=lambda x: x.date): stable insertion by date
RECURSIVE InsertByDate(_, _)
InsertByDate(sorted, x) ==
  IF sorted = <<>> THEN <<x>>
  ELSE IF x.date < Head(sorted).date THEN <<x>> \o sorted
       ELSE <<Head(sorted)>> \o InsertByDate(Tail(sorted), x)

\* the values of the dict as they are, in insertion order
SortByDateInsertionOrder(xs, n) == xs

RECURSIVE SortByDate(_, _)
SortByDate(xs, n) ==
  IF n = 0 THEN <<>> ELSE InsertByDate(SortByDate(xs, n - 1), xs[n])

scrape_workdays(year, cy, w) ==
  LET m == MergeFrom(get_scrapers_for_year(workday_scrapers, year, cy), 1, w, <<>>)
  IN  [workdays |-> SortByDate(m.all, Len(m.all)), log |-> m.log]

\* -------------------------------------------------------------------- cache

\* one key for every year
cache_keyPrefixOnly(year) == <<"holidays_", 0>>

\* TTLCache: the entries [key, value, expires], least recently used first
cache_key(year) == <<"holidays_", year>>

\* the membership test counting an entry as live at the instant it expires
CacheContainsInclusive(c, k, t) == \E i \in 1..Len(c) : c[i].key = k /\ t <= c[i].expires

\* key in self._cache: present and not yet expired
CacheContains(c, k, t) == \E i \in 1..Len(c) : c[i].key = k /\ t < c[i].expires

CachePos(c, k) == CHOOSE i \in 1..Len(c) : c[i].key = k

Without(c, k) == SelectSeq(c, LAMBDA e : e.key # k)

\* self._cache[key], for a key that CacheContains: the stored value
CacheValue(c, k) == c[CachePos(c, k)].value

\* ... and the read makes the entry the most recently used
CacheTouch(c, k) == Append(Without(c, k), c[CachePos(c, k)])

\* self._cache[key] at time t, whatever the membership test said earlier: the
\* value of a live entry, KeyError for a key that is absent or whose time is up
CacheGet(c, k, t) ==
  IF CacheContains(c, k, t)
  THEN [raised |-> FALSE, value |-> <<CacheValue(c, k)>>, cache |-> CacheTouch(c, k)]
  ELSE [raised |-> TRUE, value |-> <<>>, cache |-> c]

\* expire(time): drop every entry whose time is up
Expire(c, t) == SelectSeq(c, LAMBDA e : t < e.expires)

\* no room made: nothing is evicted
EvictNever(c, size) == c

\* room for one more key: evict least recently used entries
RECURSIVE Evict(_, _)
Evict(c, size) == IF Len(c) + 1 > size THEN Evict(Tail(c), size) ELSE c

\* self._cache[key] = value at time t
CacheSet(c, k, v, t) ==
  LET live == Expire(c, t)
      kept == IF \E i \in 1..Len(live) : live[i].key = k
              THEN Without(live, k)
              ELSE Evict(live, maxsize)
  IN  Append(kept, [key |-> k, value |-> v, expires |-> t + ttl])

\* ------------------------------------------------------------- get_holidays

HolidayResponse(year, holidays, workdays, source) ==
  [year |-> year, holidays |-> holidays, weekend_workdays |-> workdays,
   source |-> source,
   total_holidays |-> Len(holidays), total_weekend_workdays |-> Len(workdays)]

\* get_holidays that computes on a miss but leaves out the store
get_holidaysNoStore(c, year, cy, h, w, t) ==
  IF CacheContains(c, cache_key(year), t)
  THEN [response |-> CacheValue(c, cache_key(year)),
        cache    |-> CacheTouch(c, cache_key(year)),
        log      |-> <<>>,
        served   |-> "hit"]
  ELSE LET hr   == scrape_holidays(year, cy, h, t)
           wr   == scrape_workdays(year, cy, w)
           src  == IF hr.source = <<>>
                   THEN SourceInfo("None", [base |-> "", year |-> 0], year, t)
                   ELSE hr.source[1]
       IN  [response |-> HolidayResponse(year, hr.holidays, wr.workdays, src),
            cache    |-> c,
            log      |-> hr.log \o wr.log,
            served   |-> "miss"]

\* get_holidays(year) on cache c at time t, in year cy, when the scrapers
\* answer h (holiday list) and w (workday list): the response returned, the
\* cache afterwards and the scraper calls made, in order
get_holidays(c, year, cy, h, w, t) ==
  IF CacheContains(c, cache_key(year), t)
  THEN [response |-> CacheValue(c, cache_key(year)),
        cache    |-> CacheTouch(c, cache_key(year)),
        log      |-> <<>>,
        served   |-> "hit"]
  ELSE LET hr   == scrape_holidays(year, cy, h, t)
           wr   == scrape_workdays(year, cy, w)
           src  == IF hr.source = <<>>
                   THEN SourceInfo("None", [base |-> "", year |-> 0], year, t)
                   ELSE hr.source[1]
           resp == HolidayResponse(year, hr.holidays, wr.workdays, src)
       IN  [response |-> resp,
            cache    |-> CacheSet(c, cache_key(year), resp, t),
            log      |-> hr.log \o wr.log,
            served   |-> "miss"]

\* ------------------------------------------------------------- date checks

\* get_holidays_only / get_weekend_workdays_only: the list of the response
\* get_holidays gave (g)
get_holidays_only(g) == g.response.holidays

get_weekend_workdays_only(g) == g.response.weekend_workdays

\* the holiday test comparing the year only
is_holidaySameYear(g, d) ==
  \E k \in 1..Len(get_holidays_only(g)) : YearOf(get_holidays_only(g)[k].date) = YearOf(d)

\* is_holiday(check_date), g being what get_holidays(check_date.year) gave:
\* any(h.date == check_date for h in holidays)
is_holiday(g, d) ==
  \E k \in 1..Len(get_holidays_only(g)) : get_holidays_only(g)[k].date = d

\* the workday test looking into the holiday list
is_weekend_workdayInHolidays(g, d) ==
  \E k \in 1..Len(get_holidays_only(g)) : get_holidays_only(g)[k].date = d

\* is_weekend_workday(check_date), g being what get_holidays(check_date.year)
\* gave: any(w.date == check_date for w in workdays)
is_weekend_workday(g, d) ==
  \E k \in 1..Len(get_weekend_workdays_only(g)) : get_weekend_workdays_only(g)[k].date = d

\* ------------------------------------------------------------ state machine

\* years requested, and the calendar years the service may be running in
Years == {2025, 2026}

CurrentYears == {2024}

\* years named in a request over HTTP, and the years of the dates asked about
RestYears == {1999, 2000, 2101}

RestDates == {19991231, 21001231, 21010101}

\* the year range the handlers and the Query declarations state
MinYear == 2000

MaxYear == 2100

\* every year a request may name
HistYears ==
  Years \cup RestYears \cup {YearOf(d) : d \in RestDates} \cup CurrentYears
    \cup (MinYear..MaxYear)

\* clock advances, in seconds: just inside the TTL, and one second
TickSteps == {ttl - 1, 1}

NoResponse ==
  HolidayResponse(0, <<>>, <<>>, SourceInfo("", [base |-> "", year |-> 0], 0, 0))

NoAnswerH == [s \in HS |-> [raised |-> TRUE, dates |-> <<>>, wraised |-> FALSE]]

NoAnswerW == [s \in WS |-> [raised |-> TRUE, dates |-> <<>>]]

\* what the scrapers answer while the service runs
ServiceH == [HS -> {o \in HOutcomes({20250501}, 1) : ~o.wraised /\ (o.raised \/ o.dates # <<>>)}]

ServiceW == [WS -> {o \in WOutcomes({20250517}, 1) : o.raised \/ o.dates # <<>>}]

\* history of the requests, kept beside the program state: the last service
\* operation ("refetch" is a get_holidays that directly follows a clear_cache
\* which dropped a live entry of the requested year), the years whose live
\* entries the latest clear_cache dropped, the time of the last get_holidays
\* call and, per year, the time its response was last computed and stored
\* (both -1 when there was none since the latest clear_cache), and whether
\* the last get_holidays call came when the time of the stored response of
\* its year was up
NoHistory ==
  [op |-> "none", dropped |-> {}, at |-> 0 - 1, stored |-> [y \in HistYears |-> 0 - 1],
   stale |-> FALSE]

HistGet(h, y, r, t) ==
  [op      |-> IF h.op = "clear" /\ y \in h.dropped THEN "refetch" ELSE "get",
   dropped |-> {},
   at      |-> t,
   stored  |-> IF r.served = "miss" THEN [h.stored EXCEPT ![y] = t] ELSE h.stored,
   stale   |-> h.stored[y] >= 0 /\ t - h.stored[y] >= ttl]

HistClear(h, c, t) ==
  [op      |-> "clear",
   dropped |-> {y \in Years : CacheContains(c, cache_key(y), t)},
   at      |-> 0 - 1,
   stored  |-> [y \in HistYears |-> 0 - 1],
   stale   |-> FALSE]

\* no other BaseScraper subclass, and no ranking asked for on its own
NoStubs == [s \in {} |-> <<0, 0>>]

NoRank ==
  [in |-> <<>>, done |-> TRUE, again |-> TRUE, out |-> <<>>, prev |-> <<>>,
   distance |-> <<>>, supports |-> <<>>]

\* no date check made yet
NoCheck == [op |-> "none", date |-> 0, value |-> FALSE]

\* no request under way statement by statement
NoRequest == [pc |-> "idle", i |-> 0, attempts |-> <<>>, holidays |-> <<>>,
              source |-> <<>>, all |-> <<>>]

\* no page fetched
NoNet == <<>>

Init ==
  /\ env = None
  /\ svc = HolidayService(env)
  /\ now = 0
  /\ ticks = 0
  /\ currentYear \in CurrentYears
  /\ cache = <<>>
  /\ inY = 0
  /\ inH = NoAnswerH
  /\ inW = NoAnswerW
  /\ pending = FALSE
  /\ result = NoResponse
  /\ log = <<>>
  /\ served = "none"
  /\ hist = NoHistory
  /\ stubs = NoStubs
  /\ rank = NoRank
  /\ check = NoCheck
  /\ req = NoRequest
  /\ net = NoNet

\* the scrapers answer only when asked: not on a cache hit
AskedH(y) == IF CacheContains(cache, cache_key(y), now) THEN {NoAnswerH} ELSE ServiceH

AskedW(y) == IF CacheContains(cache, cache_key(y), now) THEN {NoAnswerW} ELSE ServiceW

\* a request get_holidays(y), start to finish
GetHolidays ==
  \E y \in Years : \E h \in AskedH(y), w \in AskedW(y) :
    LET r == get_holidays(cache, y, currentYear, h, w, now)
    IN  /\ ~pending
        /\ inY' = y
        /\ result' = r.response
        /\ cache' = r.cache
        /\ log' = r.log
        /\ served' = r.served
        /\ hist' = HistGet(hist, y, r, now)
        /\ UNCHANGED <<now, ticks, currentYear, inH, inW, pending>>
        /\ UNCHANGED <<stubs, rank, check, req, env, svc, net>>

\* clear_cache() dropping the expired entries only
ClearCacheExpiredOnly ==
  /\ ~pending
  /\ cache' = Expire(cache, now)
  /\ hist' = HistClear(hist, cache, now)
  /\ UNCHANGED <<now, ticks, currentYear, inY, inH, inW, pending, result, log, served>>
  /\ UNCHANGED <<stubs, rank, check, req, env, svc, net>>

\* clear_cache()
ClearCache ==
  /\ ~pending
  /\ cache' = <<>>
  /\ hist' = HistClear(hist, cache, now)
  /\ UNCHANGED <<now, ticks, currentYear, inY, inH, inW, pending, result, log, served>>
  /\ UNCHANGED <<stubs, rank, check, req, env, svc, net>>

\* the clock moves on
Tick ==
  \E d \in TickSteps :
    /\ ~pending
    /\ ticks < MaxTicks
    /\ now' = now + d
    /\ ticks' = ticks + 1
    /\ UNCHANGED <<currentYear, cache, inY, inH, inW, pending, result, log, served, hist>>
    /\ UNCHANGED <<stubs, rank, check, req, env, svc, net>>

Next == GetHolidays \/ ClearCache \/ Tick

Spec == Init /\ [][Next]_vars

\* ---- a request statement by statement: time passes between the membership
\* ---- test and the read of a cache hit

\* get_holidays(y) up to the membership test: on a miss the rest of the
\* method follows, on a hit the read is still to come
GetHolidaysLookup ==
  \E y \in Years : \E h \in AskedH(y), w \in AskedW(y) :
    /\ ~pending
    /\ inY' = y
    /\ IF CacheContains(cache, cache_key(y), now)
       THEN /\ pending' = TRUE
            /\ served' = "found"
            /\ UNCHANGED <<cache, result, log, hist>>
       ELSE LET r == get_holidays(cache, y, currentYear, h, w, now)
            IN  /\ result' = r.response
                /\ cache' = r.cache
                /\ log' = r.log
                /\ served' = r.served
                /\ hist' = HistGet(hist, y, r, now)
                /\ UNCHANGED pending
    /\ UNCHANGED <<now, ticks, currentYear, inH, inW>>
    /\ UNCHANGED <<stubs, rank, check, req, env, svc, net>>

\* the clock moves on between the membership test and the read
Delay ==
  \E d \in TickSteps :
    /\ pending
    /\ served = "found"
    /\ ticks < MaxTicks
    /\ now' = now + d
    /\ ticks' = ticks + 1
    /\ UNCHANGED <<currentYear, cache, inY, inH, inW, pending, result, log, served, hist>>
    /\ UNCHANGED <<stubs, rank, check, req, env, svc, net>>

\* return self._cache[cache_key]: the read returns the entry, or its KeyError
\* leaves get_holidays
GetHolidaysRead ==
  LET g == CacheGet(cache, cache_key(inY), now)
  IN  /\ pending
      /\ served = "found"
      /\ pending' = FALSE
      /\ cache' = g.cache
      /\ log' = <<>>
      /\ result' = IF g.raised THEN NoResponse ELSE g.value[1]
      /\ served' = IF g.raised THEN "KeyError" ELSE "hit"
      /\ hist' = HistGet(hist, inY, [served |-> served'], now)
      /\ UNCHANGED <<now, ticks, currentYear, inY, inH, inW>>
      /\ UNCHANGED <<stubs, rank, check, req, env, svc, net>>

NextLookup == GetHolidaysLookup \/ Delay \/ GetHolidaysRead \/ Tick

SpecLookup == Init /\ [][NextLookup]_vars

\* ---- the date checks, each start to finish

\* the dates asked about: a holiday and a workday the scrapers report for
\* 2025, and a day of 2026
CheckDates == {20250501, 20250517, 20260101}

\* what the scrapers answer to a date check: all of a list report their one
\* date or all raise
AnswersH(y) == {h \in AskedH(y) : \A s, u \in HS : h[s].raised = h[u].raised}

AnswersW(y) == {w \in AskedW(y) : \A s, u \in WS : w[s].raised = w[u].raised}

IsHoliday ==
  \E d \in CheckDates : \E h \in AnswersH(YearOf(d)), w \in AnswersW(YearOf(d)) :
    LET g == get_holidays(cache, YearOf(d), currentYear, h, w, now)
    IN  /\ ~pending
        /\ check' = [op |-> "is_holiday", date |-> d, value |-> is_holiday(g, d)]
        /\ inY' = YearOf(d)
        /\ result' = g.response
        /\ cache' = g.cache
        /\ log' = g.log
        /\ served' = g.served
        /\ hist' = HistGet(hist, YearOf(d), g, now)
        /\ UNCHANGED <<now, ticks, currentYear, inH, inW, pending, stubs, rank, req, env, svc, net>>

IsWeekendWorkday ==
  \E d \in CheckDates : \E h \in AnswersH(YearOf(d)), w \in AnswersW(YearOf(d)) :
    LET g == get_holidays(cache, YearOf(d), currentYear, h, w, now)
    IN  /\ ~pending
        /\ check' = [op |-> "is_weekend_workday", date |-> d, value |-> is_weekend_workday(g, d)]
        /\ inY' = YearOf(d)
        /\ result' = g.response
        /\ cache' = g.cache
        /\ log' = g.log
        /\ served' = g.served
        /\ hist' = HistGet(hist, YearOf(d), g, now)
        /\ UNCHANGED <<now, ticks, currentYear, inH, inW, pending, stubs, rank, req, env, svc, net>>

NextCheck == IsHoliday \/ IsWeekendWorkday \/ Tick

SpecCheck == Init /\ [][NextCheck]_vars

\* ---- the REST entry points of main.py, each handler start to finish

\* what the scrapers answer to a request over HTTP: every one its one date
RestH == {h \in ServiceH : \A s \in HS : ~h[s].raised}

RestW == {w \in ServiceW : \A s \in WS : ~w[s].raised}

\* the handler hands year y to the service (get_holidays, get_holidays_only
\* or get_weekend_workdays_only: one get_holidays(y) call)
ServiceCall(ep, y) ==
  \E h \in RestH, w \in RestW :
    LET g == get_holidays(cache, y, currentYear, h, w, now)
    IN  /\ check' = [op |-> ep, date |-> 0, value |-> FALSE]
        /\ inY' = y
        /\ result' = g.response
        /\ cache' = g.cache
        /\ log' = g.log
        /\ served' = g.served
        /\ hist' = HistGet(hist, y, g, now)

\* the request is refused (422 from the Query validation, 400 from the
\* handler) before the service is reached
Rejected(ep, y) ==
  /\ check' = [op |-> ep, date |-> 0, value |-> FALSE]
  /\ inY' = y
  /\ served' = "rejected"
  /\ UNCHANGED <<cache, result, log, hist>>

\* a handler whose year is a Query(default=None, ge=2000, le=2100): no year
\* given means the current year
QueryYear(ep) ==
  /\ ~pending
  /\ \/ ServiceCall(ep, currentYear)
     \/ \E y \in RestYears :
          IF MinYear <= y /\ y <= MaxYear THEN ServiceCall(ep, y) ELSE Rejected(ep, y)
  /\ UNCHANGED <<now, ticks, currentYear, inH, inW, pending, stubs, rank, req, env, svc, net>>

\* a handler whose year is a path parameter it checks itself
PathYear(ep) ==
  /\ ~pending
  /\ \E y \in RestYears :
       IF y < MinYear \/ y > MaxYear THEN Rejected(ep, y) ELSE ServiceCall(ep, y)
  /\ UNCHANGED <<now, ticks, currentYear, inH, inW, pending, stubs, rank, req, env, svc, net>>

\* GET /holidays
HttpHolidays == QueryYear("/holidays")

\* GET /holidays/{year}
HttpHolidaysByYear == PathYear("/holidays/{year}")

\* GET /holidays-only
HttpHolidaysOnly == QueryYear("/holidays-only")

\* GET /workdays
HttpWorkdays == QueryYear("/workdays")

\* GET /workdays/{year}
HttpWorkdaysByYear == PathYear("/workdays/{year}")

\* GET /check/{check_date}: is_holiday, then is_weekend_workday, then
\* get_holidays_only once more for the name of a holiday
HttpCheckDate ==
  \E d \in RestDates : \E h \in RestH, w \in RestW :
    LET g1 == get_holidays(cache, YearOf(d), currentYear, h, w, now)
        g2 == get_holidays(g1.cache, YearOf(d), currentYear, h, w, now)
        g3 == IF is_holiday(g1, d)
              THEN get_holidays(g2.cache, YearOf(d), currentYear, h, w, now)
              ELSE g2
    IN  /\ ~pending
        /\ check' = [op |-> "/check/{check_date}", date |-> d, value |-> is_holiday(g1, d)]
        /\ inY' = YearOf(d)
        /\ result' = g1.response
        /\ cache' = g3.cache
        /\ log' = g1.log
        /\ served' = g1.served
        /\ hist' = HistGet(hist, YearOf(d), g1, now)
        /\ UNCHANGED <<now, ticks, currentYear, inH, inW, pending, stubs, rank, req, env, svc, net>>

NextRest ==
  \/ HttpHolidays
  \/ HttpHolidaysByYear
  \/ HttpHolidaysOnly
  \/ HttpWorkdays
  \/ HttpWorkdaysByYear
  \/ HttpCheckDate

SpecRest == Init /\ [][NextRest]_vars

\* ---- GET /holidays/{year} for one year after another, 101 years in all

\* the years requested so far (none cleared, none expired: the clock stands)
Requested == {y \in MinYear..MaxYear : hist.stored[y] >= 0}

\* the next year of the range is requested for the first time
RequestNextYear ==
  /\ ~pending
  /\ Cardinality(Requested) <= MaxYear - MinYear
  /\ ServiceCall("/holidays/{year}", MinYear + Cardinality(Requested))
  /\ UNCHANGED <<now, ticks, currentYear, inH, inW, pending, stubs, rank, req, env, svc, net>>

\* the first year of the range is requested again
RequestFirstYear ==
  /\ ~pending
  /\ MinYear \in Requested
  /\ ServiceCall("/holidays/{year}", MinYear)
  /\ UNCHANGED <<now, ticks, currentYear, inH, inW, pending, stubs, rank, req, env, svc, net>>

NextEvict == RequestNextYear \/ RequestFirstYear

SpecEvict == Init /\ [][NextEvict]_vars

\* ---- one request against an empty cache, the scrapers' answers drawn at the start

\* the one pending request is served
Serve ==
  LET r == get_holidays(cache, inY, currentYear, inH, inW, now)
  IN  /\ pending
      /\ pending' = FALSE
      /\ result' = r.response
      /\ cache' = r.cache
      /\ log' = r.log
      /\ served' = r.served
      /\ hist' = HistGet(hist, inY, r, now)
      /\ UNCHANGED <<now, ticks, currentYear, inY, inH, inW>>
      /\ UNCHANGED <<stubs, rank, check, req, env, svc, net>>

InitRequest(hs, ws) ==
  /\ env = None
  /\ svc = HolidayService(env)
  /\ now = 0
  /\ ticks = 0
  /\ currentYear \in CurrentYears
  /\ cache = <<>>
  /\ inY \in Years
  /\ inH \in hs
  /\ inW \in ws
  /\ pending = TRUE
  /\ result = NoResponse
  /\ log = <<>>
  /\ served = "none"
  /\ hist = NoHistory
  /\ stubs = NoStubs
  /\ rank = NoRank
  /\ check = NoCheck
  /\ req = NoRequest
  /\ net = NoNet

\* the resolver on every holiday answer, the workday scrapers answering little
InitResolver ==
  InitRequest([HS -> HOutcomes(HDates, MaxLen)], [WS -> WOutcomes({20250517}, 1)])

NextRequest == Serve

SpecResolver == InitResolver /\ [][NextRequest]_vars

\* the merger on every workday answer, the holiday scrapers answering little
InitMerger ==
  InitRequest([HS -> {o \in HOutcomes({20250501}, 1) : ~o.wraised}],
              [WS -> WOutcomes(WDates, MaxLen)])

SpecMerger == InitMerger /\ [][NextRequest]_vars


\* ---- a request statement by statement: one scraper of a ranked list per step

\* the for loop of _scrape_holidays after the scraper at position i of the n
\* ranked ones was tried: return at the first accepted scraper, go on to the
\* next one otherwise, fall out of the loop after the last
HolidayLoop(i, n, accepted) ==
  IF accepted \/ i >= n THEN [pc |-> "workdays", i |-> 1]
  ELSE [pc |-> "holidays", i |-> i + 1]

\* the for loop left at the first scraper that raises
WorkdayLoopStopOnError(i, n, raised) ==
  IF raised \/ i >= n THEN [pc |-> "store", i |-> 0]
  ELSE [pc |-> "workdays", i |-> i + 1]

\* the for loop of _scrape_workdays after the scraper at position i of the n
\* ranked ones was tried: always on to the next one
WorkdayLoop(i, n, raised) ==
  IF i >= n THEN [pc |-> "store", i |-> 0]
  ELSE [pc |-> "workdays", i |-> i + 1]

\* get_holidays up to the cache lookup: a live entry is returned, otherwise
\* the resolver starts on its ranked list
StepLookup ==
  /\ pending
  /\ req.pc = "lookup"
  /\ IF CacheContains(cache, cache_key(inY), now)
     THEN /\ result' = CacheValue(cache, cache_key(inY))
          /\ cache' = CacheTouch(cache, cache_key(inY))
          /\ served' = "hit"
          /\ pending' = FALSE
          /\ req' = [req EXCEPT !.pc = "done"]
          /\ hist' = HistGet(hist, inY, [served |-> "hit"], now)
     ELSE /\ req' = [req EXCEPT !.pc = "holidays", !.i = 1]
          /\ UNCHANGED <<result, cache, served, pending, hist>>
  /\ log' = <<>>
  /\ UNCHANGED <<now, ticks, currentYear, inY, inH, inW>>
  /\ UNCHANGED <<stubs, rank, check, env, svc, net>>

\* one pass of the for loop of _scrape_holidays: scraper.scrape(year) of the
\* scraper at position req.i
StepHoliday ==
  LET ranked   == get_scrapers_for_year(holiday_scrapers, inY, currentYear)
      s        == ranked[req.i]
      r        == scrape(s, inY, inH[s], now)
      accepted == ~r.raised /\ r.holidays # <<>>
      next     == HolidayLoop(req.i, Len(ranked), accepted)
  IN  /\ pending
      /\ req.pc = "holidays"
      /\ req' = [req EXCEPT !.pc = next.pc, !.i = next.i,
                            !.attempts = Append(@, <<"holiday", s>>),
                            !.holidays = IF accepted THEN r.holidays ELSE <<>>,
                            !.source = IF accepted THEN r.source ELSE <<>>]
      /\ log' = log \o r.log
      /\ UNCHANGED <<now, ticks, currentYear, cache, inY, inH, inW, pending, result,
                     served, hist>>
      /\ UNCHANGED <<stubs, rank, check, env, svc, net>>

\* one pass of the for loop of _scrape_workdays
StepWorkday ==
  LET ranked == get_scrapers_for_year(workday_scrapers, inY, currentYear)
      s      == ranked[req.i]
      next   == WorkdayLoop(req.i, Len(ranked), inW[s].raised)
  IN  /\ pending
      /\ req.pc = "workdays"
      /\ req' = [req EXCEPT !.pc = next.pc, !.i = next.i,
                            !.attempts = Append(@, <<"workday", s>>),
                            !.all = IF inW[s].raised THEN @
                                    ELSE AddWorkdays(@, s, inW[s].dates, 1)]
      /\ log' = Append(log, Call("workday", s, "scrape_weekend_workdays", inW[s].raised))
      /\ UNCHANGED <<now, ticks, currentYear, cache, inY, inH, inW, pending, result,
                     served, hist>>
      /\ UNCHANGED <<stubs, rank, check, env, svc, net>>

\* the rest of get_holidays: the sentinel source, the response, the store
StepStore ==
  LET src  == IF req.source = <<>>
              THEN SourceInfo("None", [base |-> "", year |-> 0], inY, now)
              ELSE req.source[1]
      resp == HolidayResponse(inY, req.holidays, SortByDate(req.all, Len(req.all)), src)
  IN  /\ pending
      /\ req.pc = "store"
      /\ result' = resp
      /\ cache' = CacheSet(cache, cache_key(inY), resp, now)
      /\ served' = "miss"
      /\ pending' = FALSE
      /\ req' = [req EXCEPT !.pc = "done"]
      /\ hist' = HistGet(hist, inY, [served |-> "miss"], now)
      /\ UNCHANGED <<now, ticks, currentYear, inY, inH, inW, log>>
      /\ UNCHANGED <<stubs, rank, check, env, svc, net>>

\* the next request arrives, some time after the last one returned
StepAgain ==
  \E y \in Years, d \in TickSteps :
    /\ ~pending
    /\ req.pc = "done"
    /\ ticks < MaxTicks
    /\ now' = now + d
    /\ ticks' = ticks + 1
    /\ inY' = y
    /\ pending' = TRUE
    /\ req' = [NoRequest EXCEPT !.pc = "lookup"]
    /\ UNCHANGED <<currentYear, cache, inH, inW, result, log, served, hist>>
    /\ UNCHANGED <<stubs, rank, check, env, svc, net>>

InitSteps ==
  /\ env = None
  /\ svc = HolidayService(env)
  /\ now = 0
  /\ ticks = 0
  /\ currentYear \in CurrentYears
  /\ cache = <<>>
  /\ inY \in Years
  /\ inH \in [HS -> HOutcomes({20250501}, 1)]
  /\ inW \in [WS -> WOutcomes({20250517}, 1)]
  /\ pending = TRUE
  /\ result = NoResponse
  /\ log = <<>>
  /\ served = "none"
  /\ hist = NoHistory
  /\ stubs = NoStubs
  /\ rank = NoRank
  /\ check = NoCheck
  /\ req = [NoRequest EXCEPT !.pc = "lookup"]
  /\ net = NoNet

RequestStep == StepLookup \/ StepHoliday \/ StepWorkday \/ StepStore

NextSteps == RequestStep \/ StepAgain

\* a request is synchronous code: once called it runs on, and every call of
\* a scraper returns or raises (the httpx client has a 30 second timeout)
SpecSteps == InitSteps /\ [][NextSteps]_vars /\ WF_vars(RequestStep)


\* ---- the scrapers themselves: what a scraper makes of the page it fetched

\* what the network gives to one client.get: an httpx.HTTPError (transport
\* error, timeout, error status) or a page, seen as the dated entries the
\* scraper's patterns find on it, in page order
HTTPError == [error |-> TRUE, page |-> <<>>]

Page(p) == [error |-> FALSE, page |-> p]

Entry(d, desc) == [date |-> d, desc |-> desc]

\* fetch_page letting the httpx.HTTPError through
fetch_pageRaising(o) ==
  [raised |-> o.error, soup |-> IF o.error THEN <<>> ELSE <<o.page>>]

\* BaseScraper.fetch_page: the parsed page, or None (the empty sequence)
\* after an httpx.HTTPError
fetch_page(o) ==
  [raised |-> FALSE, soup |-> IF o.error THEN <<>> ELSE <<o.page>>]

\* PontosIdoScraper._get_2025_holidays and _get_2025_workdays, by date
get_2025_holidays ==
  <<20250101, 20250315, 20250418, 20250420, 20250421, 20250501, 20250502, 20250608,
    20250609, 20250820, 20251023, 20251024, 20251101, 20251224, 20251225, 20251226>>

get_2025_workdays == <<20250517, 20251018, 20251213>>

\* sorted(..., key=lambda x: x.date) of a list of dates
SortedDates(ds) ==
  LET recs   == [i \in 1..Len(ds) |-> [date |-> ds[i]]]
      sorted == SortByDate(recs, Len(recs))
  IN  [i \in 1..Len(sorted) |-> sorted[i].date]

InSeq(ds, d) == \E k \in 1..Len(ds) : ds[k] = d

\* a loop appending each date of more that seen_dates does not hold yet
RECURSIVE AppendUnseen(_, _, _)
AppendUnseen(ds, more, i) ==
  IF i > Len(more) THEN ds
  ELSE AppendUnseen(IF InSeq(ds, more[i]) THEN ds ELSE Append(ds, more[i]), more, i + 1)

\* the dates of the entries kept, in page order
DatesOf(kept) == [i \in 1..Len(kept) |-> kept[i].date]

\* the date a "day month" entry stands for in the requested year
InYear(d, year) == year * 10000 + MonthOf(d) * 100 + DayOf(d)

\* PontosIdoScraper.scrape_holidays keeping to what the page lists
PontosIdo_scrape_holidaysPageOnly(year, f) ==
  IF f.raised THEN [raised |-> TRUE, dates |-> <<>>, wraised |-> FALSE]
  ELSE IF f.soup = <<>>
  THEN [raised |-> FALSE, dates |-> IF year = 2025 THEN get_2025_holidays ELSE <<>>,
        wraised |-> FALSE]
  ELSE LET listed == DatesOf(SelectSeq(f.soup[1],
                       LAMBDA e : YearOf(e.date) = year
                                  /\ e.desc \in {"unnepnap", "pihenonap"}))
       IN  [raised |-> FALSE, dates |-> SortedDates(AppendUnseen(<<>>, listed, 1)),
            wraised |-> FALSE]

\* PontosIdoScraper.scrape_holidays: the lines of the requested year that
\* are an "unnepnap" or a "pihenonap", each date once, then the known 2025
\* holidays not among them, sorted; with no page the known 2025 holidays or
\* nothing
PontosIdo_scrape_holidays(year, f) ==
  IF f.raised THEN [raised |-> TRUE, dates |-> <<>>, wraised |-> FALSE]
  ELSE IF f.soup = <<>>
  THEN [raised |-> FALSE, dates |-> IF year = 2025 THEN get_2025_holidays ELSE <<>>,
        wraised |-> FALSE]
  ELSE LET listed == DatesOf(SelectSeq(f.soup[1],
                       LAMBDA e : YearOf(e.date) = year
                                  /\ e.desc \in {"unnepnap", "pihenonap"}))
           seen   == AppendUnseen(<<>>, listed, 1)
       IN  [raised |-> FALSE,
            dates |-> SortedDates(IF year = 2025
                                  THEN AppendUnseen(seen, get_2025_holidays, 1)
                                  ELSE seen),
            wraised |-> FALSE]

\* PontosIdoScraper.scrape_weekend_workdays: the "athelyezett munkanap" lines
\* of the requested year that fall on a weekend, then the known 2025 workdays
PontosIdo_scrape_weekend_workdays(year, f) ==
  IF f.raised THEN [raised |-> TRUE, dates |-> <<>>]
  ELSE IF f.soup = <<>>
  THEN [raised |-> FALSE, dates |-> IF year = 2025 THEN get_2025_workdays ELSE <<>>]
  ELSE LET listed == DatesOf(SelectSeq(f.soup[1],
                       LAMBDA e : YearOf(e.date) = year
                                  /\ e.desc = "athelyezett munkanap"
                                  /\ weekday(e.date) >= 5))
           seen   == AppendUnseen(<<>>, listed, 1)
       IN  [raised |-> FALSE,
            dates |-> SortedDates(IF year = 2025
                                  THEN AppendUnseen(seen, get_2025_workdays, 1)
                                  ELSE seen)]

\* PublicHolidaysScraper.scrape_holidays: every row of the table of the
\* requested year, dated in that year, sorted; nothing with no page
PublicHolidays_scrape_holidays(year, f) ==
  IF f.raised THEN [raised |-> TRUE, dates |-> <<>>, wraised |-> FALSE]
  ELSE IF f.soup = <<>> THEN [raised |-> FALSE, dates |-> <<>>, wraised |-> FALSE]
  ELSE LET rows == f.soup[1]
       IN  [raised |-> FALSE,
            dates |-> SortedDates([i \in 1..Len(rows) |-> InYear(rows[i].date, year)]),
            wraised |-> FALSE]

\* PublicHolidaysScraper / DailyNewsHungaryScraper.scrape_weekend_workdays:
\* the "working day" mentions, dated in the requested year, on a weekend,
\* each date once, sorted; nothing with no page
Mentions_scrape_weekend_workdays(year, f) ==
  IF f.raised THEN [raised |-> TRUE, dates |-> <<>>]
  ELSE IF f.soup = <<>> THEN [raised |-> FALSE, dates |-> <<>>]
  ELSE LET rows   == SelectSeq(f.soup[1], LAMBDA e : e.desc = "working day")
           listed == [i \in 1..Len(rows) |-> InYear(rows[i].date, year)]
           onWeekend == SelectSeq(listed, LAMBDA d : weekday(d) >= 5)
       IN  [raised |-> FALSE, dates |-> SortedDates(AppendUnseen(<<>>, onWeekend, 1))]

\* scraper.scrape_holidays(year) when the network gives o
scrape_holidays_of(s, year, o) ==
  CASE s = "PontosIdo.com"     -> PontosIdo_scrape_holidays(year, fetch_page(o))
    [] s = "PublicHolidays.hu" -> PublicHolidays_scrape_holidays(year, fetch_page(o))
    [] OTHER                   -> [raised |-> FALSE, dates |-> <<>>, wraised |-> FALSE]

\* scraper.scrape_weekend_workdays(year) when the network gives o
scrape_weekend_workdays_of(s, year, o) ==
  CASE s = "PontosIdo.com" -> PontosIdo_scrape_weekend_workdays(year, fetch_page(o))
    [] OTHER               -> Mentions_scrape_weekend_workdays(year, fetch_page(o))


\* the entries a page of pontosido.com may list, and the pages fetched for
\* its holidays and for its workdays
PontosHolidayEntries ==
  {Entry(20250501, "unnepnap"), Entry(20250102, "pihenonap"), Entry(20260101, "unnepnap"),
   Entry(20250517, "athelyezett munkanap"), Entry(20260110, "athelyezett munkanap")}

PontosWorkdayEntries ==
  {Entry(20250517, "athelyezett munkanap"), Entry(20260110, "athelyezett munkanap")}

Outcomes(E, n) == {HTTPError} \cup {Page(p) : p \in SeqsUpTo(E, n)}

\* what the network gives to the fetch of scrape_holidays of a scraper of the
\* holiday list and to the fetch of scrape_weekend_workdays of a scraper of
\* the workday list
NetOf(list, s) ==
  CASE list = "holiday" /\ s = "PontosIdo.com" -> Outcomes(PontosHolidayEntries, MaxLen)
    [] list = "holiday" /\ s # "PontosIdo.com" -> Outcomes({Entry(20250501, "holiday")}, 1)
    [] list = "workday" /\ s = "PontosIdo.com" -> Outcomes(PontosWorkdayEntries, MaxLen)
    [] OTHER -> Outcomes({Entry(20250517, "working day")}, 1)

\* the one pending request is served by scrapers that fetch their pages
ServeFetched ==
  LET h == [s \in HS |-> scrape_holidays_of(s, inY, net.holiday[s])]
      w == [s \in WS |-> scrape_weekend_workdays_of(s, inY, net.workday[s])]
      r == get_holidays(cache, inY, currentYear, h, w, now)
  IN  /\ pending
      /\ pending' = FALSE
      /\ inH' = h
      /\ inW' = w
      /\ result' = r.response
      /\ cache' = r.cache
      /\ log' = r.log
      /\ served' = r.served
      /\ hist' = HistGet(hist, inY, r, now)
      /\ UNCHANGED <<now, ticks, currentYear, inY>>
      /\ UNCHANGED <<stubs, rank, check, req, env, svc, net>>

InitFetch ==
  /\ env = None
  /\ svc = HolidayService(env)
  /\ now = 0
  /\ ticks = 0
  /\ currentYear \in CurrentYears
  /\ cache = <<>>
  /\ inY \in Years
  /\ inH = NoAnswerH
  /\ inW = NoAnswerW
  /\ pending = TRUE
  /\ result = NoResponse
  /\ log = <<>>
  /\ served = "none"
  /\ hist = NoHistory
  /\ stubs = NoStubs
  /\ rank = NoRank
  /\ check = NoCheck
  /\ req = NoRequest
  /\ net \in [holiday : {f \in [HS -> UNION {NetOf("holiday", s) : s \in HS}] :
                           \A s \in HS : f[s] \in NetOf("holiday", s)},
               workday : {f \in [WS -> UNION {NetOf("workday", s) : s \in WS}] :
                           \A s \in WS : f[s] \in NetOf("workday", s)}]

NextFetch == ServeFetched

SpecFetch == InitFetch /\ [][NextFetch]_vars

\* ---- the ranker on its own: any list of scrapers, any offsets, any year

\* BaseScraper subclasses besides the registered ones, by name
StubNames == <<"Stub1", "Stub2", "Stub3", "Stub4", "Stub5">>

\* the offsets a subclass may set, min_year_offset <= max_year_offset
StubOffsets == {<<mn, mx>> \in ((0 - 1)..1) \X ((0 - 1)..1) : mn <= mx}

\* the years asked for, around the current year
RankYears(cy) == (cy - 3)..(cy + 3)

\* the list handed to the ranker, after the call, were it sorted in place
\* (scrapers.sort(key=...))
ListAfterRankingInPlace(scrapers, year, cy) == get_scrapers_for_year(scrapers, year, cy)

\* the list handed to the ranker, after the call: sorted() builds a new list
\* and leaves its argument as it was
ListAfterRanking(scrapers, year, cy) == scrapers

\* a call, then a second call, of
\* _get_scrapers_for_year(rank.in, inY) and, per position of rank.in, what
\* get_year_distance and supports_year return for the year
Rank ==
  /\ ~rank.again
  /\ rank' = [in       |-> ListAfterRanking(rank.in, inY, currentYear),
              done     |-> TRUE,
              again    |-> rank.done,
              prev     |-> rank.out,
              out      |-> get_scrapers_for_year(rank.in, inY, currentYear),
              distance |-> [i \in 1..Len(rank.in) |->
                             get_year_distance(rank.in[i], inY, currentYear)],
              supports |-> [i \in 1..Len(rank.in) |->
                             supports_year(rank.in[i], inY, currentYear)]]
  /\ UNCHANGED <<now, ticks, currentYear, cache, inY, inH, inW, pending, result, log,
                 served, hist, stubs, check, req, env, svc, net>>

InitRanker ==
  /\ env = None
  /\ svc = HolidayService(env)
  /\ now = 0
  /\ ticks = 0
  /\ currentYear \in CurrentYears
  /\ cache = <<>>
  /\ inY \in RankYears(currentYear)
  /\ inH = NoAnswerH
  /\ inW = NoAnswerW
  /\ pending = FALSE
  /\ result = NoResponse
  /\ log = <<>>
  /\ served = "none"
  /\ hist = NoHistory
  /\ check = NoCheck
  /\ req = NoRequest
  /\ net = NoNet
  /\ \E n \in 0..MaxList :
       \/ /\ stubs \in [{StubNames[i] : i \in 1..n} -> StubOffsets]
          /\ rank = [NoRank EXCEPT !.in = SubSeq(StubNames, 1, n),
                                   !.done = FALSE, !.again = FALSE]
       \/ /\ stubs = NoStubs
          /\ rank \in {[NoRank EXCEPT !.in = l, !.done = FALSE, !.again = FALSE] :
                          l \in {holiday_scrapers, workday_scrapers}}

NextRanker == Rank

SpecRanker == InitRanker /\ [][NextRanker]_vars


\* ---- the process from its start: the environment, the construction of the
\* ---- one HolidayService (main.py), then requests

\* values of INCLUDE_PUBLICHOLIDAYS_FOR_WORKDAYS: not set, empty, the three
\* words, the words in upper case and inside white space, and other values
EnvValues ==
  {None, <<>>, <<"1">>, <<"t", "r", "u", "e">>, <<"y", "e", "s">>,
   <<" ", "T", "r", "u", "e", "\n">>, <<"Y", "E", "S">>, <<"\t", "1", " ">>,
   <<"0">>, <<"n", "o">>, <<"o", "n">>, <<"t", " ", "r", "u", "e">>, <<" ">>}

\* the module is imported but holiday_service is not constructed yet
NoService == [holiday_scrapers |-> <<>>, workday_scrapers |-> <<>>]

Built == svc # NoService

\* holiday_service = HolidayService()
Construct ==
  /\ ~Built
  /\ svc' = HolidayService(env)
  /\ cache' = <<>>
  /\ UNCHANGED <<now, ticks, currentYear, inY, inH, inW, pending, result, log, served,
                 hist, stubs, rank, check, req, env, net>>

\* the environment variable is set to another value, or unset
SetEnv ==
  \E e \in EnvValues :
    /\ e # env
    /\ env' = e
    /\ UNCHANGED <<now, ticks, currentYear, cache, inY, inH, inW, pending, result, log,
                   served, hist, stubs, rank, check, req, svc, net>>

\* a request to the constructed service: both lists go through
\* _get_scrapers_for_year
RequestBuilt ==
  \E y \in Years :
    /\ Built
    /\ ServiceCall("get_holidays", y)
    /\ svc' = [holiday_scrapers |-> ListAfterRanking(holiday_scrapers, y, currentYear),
               workday_scrapers |-> ListAfterRanking(workday_scrapers, y, currentYear)]
    /\ UNCHANGED <<now, ticks, currentYear, inH, inW, pending, stubs, rank, req, env, net>>

ClearCacheBuilt == Built /\ ClearCache

InitConstruct ==
  /\ env \in EnvValues
  /\ svc = NoService
  /\ now = 0
  /\ ticks = 0
  /\ currentYear \in CurrentYears
  /\ cache = <<>>
  /\ inY = 0
  /\ inH = <<>>
  /\ inW = <<>>
  /\ pending = FALSE
  /\ result = NoResponse
  /\ log = <<>>
  /\ served = "none"
  /\ hist = NoHistory
  /\ stubs = NoStubs
  /\ rank = NoRank
  /\ check = NoCheck
  /\ req = NoRequest
  /\ net = NoNet

NextConstruct == Construct \/ SetEnv \/ RequestBuilt \/ ClearCacheBuilt

SpecConstruct == InitConstruct /\ [][NextConstruct]_vars

\* ------------------------------------------------------------------ claims

\* the ranked lists of the request at hand
HRanked == get_scrapers_for_year(holiday_scrapers, inY, currentYear)

WRanked == get_scrapers_for_year(workday_scrapers, inY, currentYear)

\* the request called a method of holiday scraper s
InvokedH(s) == \E k \in 1..Len(log) : log[k].list = "holiday" /\ log[k].src = s

\* scrape_holidays of s returns a non-empty list, and the list it returns
NonEmptyH(s) == ~inH[s].raised /\ inH[s].dates # <<>>

ReturnedHolidays(s) == [i \in 1..Len(inH[s].dates) |-> Holiday(s, inH[s].dates[i], i)]

\* C1: once a holiday scraper has returned a non-empty list, the resolver
\* calls no scraper ranked after it, and the holidays of the result are
\* exactly that list.
C1_FallbackStop ==
  served = "miss" =>
    \A i \in 1..Len(HRanked) :
      (InvokedH(HRanked[i]) /\ NonEmptyH(HRanked[i])) =>
        /\ \A j \in (i + 1)..Len(HRanked) : ~InvokedH(HRanked[j])
        /\ result.holidays = ReturnedHolidays(HRanked[i])

\* C2: the holidays and the provenance name of the result come from the
\* first scraper in rank order whose scrape_holidays returns a non-empty
\* list, and a response for the requested year is returned whatever raised.
C2_FallbackOnFailure ==
  served = "miss" =>
    /\ result.year = inY
    /\ \A i \in 1..Len(HRanked) :
         (NonEmptyH(HRanked[i]) /\ \A j \in 1..(i - 1) : ~NonEmptyH(HRanked[j])) =>
           /\ result.holidays = ReturnedHolidays(HRanked[i])
           /\ result.source.name = HRanked[i]

\* C3: a scraper the resolver reaches whose scrape_holidays returns a
\* non-empty list is accepted as the holiday source even when its own
\* scrape_weekend_workdays raises.
C3_AcceptedDespiteWorkdayError ==
  served = "miss" =>
    \A s \in HS :
      (InvokedH(s) /\ NonEmptyH(s) /\ inH[s].wraised) =>
        /\ result.source.name = s
        /\ result.holidays = ReturnedHolidays(s)

\* workday scraper s answered, and its list has date d
ReportedBy(s, d) == ~inW[s].raised /\ \E i \in 1..Len(inW[s].dates) : inW[s].dates[i] = d

\* the highest-ranked workday scraper reporting d
TopReporter(d) ==
  WRanked[CHOOSE i \in 1..Len(WRanked) :
            ReportedBy(WRanked[i], d) /\ \A j \in 1..(i - 1) : ~ReportedBy(WRanked[j], d)]

EntriesOn(ws, d) == {k \in 1..Len(ws) : ws[k].date = d}

\* C4: every date some answering workday scraper reported is in the merged
\* list exactly once, with a record the highest-ranked scraper reporting it
\* returned for that date; the merged list has no other dates.
C4_FirstSeenWins ==
  served = "miss" =>
    LET ws == result.weekend_workdays
    IN  /\ \A d \in WDates :
             (\E s \in WS : ReportedBy(s, d)) =>
               /\ Cardinality(EntriesOn(ws, d)) = 1
               /\ \A k \in EntriesOn(ws, d) :
                    /\ ws[k].reason[1] = TopReporter(d)
                    /\ ws[k].reason[2] \in 1..Len(inW[TopReporter(d)].dates)
                    /\ inW[TopReporter(d)].dates[ws[k].reason[2]] = d
        /\ \A k \in 1..Len(ws) : \E s \in WS : ReportedBy(s, ws[k].date)

\* the first-ranked scraper reports d1, the second d1 and one more date, and
\* the merged list has d1 from the first and the other date from the second
C4_Witness ==
  /\ served = "miss"
  /\ \E d1, d2 \in WDates :
       /\ d1 # d2
       /\ ReportedBy(WRanked[1], d1) /\ ~ReportedBy(WRanked[1], d2)
       /\ ReportedBy(WRanked[2], d1) /\ ReportedBy(WRanked[2], d2)
       /\ Len(result.weekend_workdays) = 2
       /\ \E k \in 1..2 : /\ result.weekend_workdays[k].date = d1
                          /\ result.weekend_workdays[k].reason[1] = WRanked[1]
       /\ \E k \in 1..2 : /\ result.weekend_workdays[k].date = d2
                          /\ result.weekend_workdays[k].reason[1] = WRanked[2]

\* C5: no two entries of the weekend-workday list of a result have the same
\* date, also when one scraper reports a date twice.
C5_UniqueWorkdayDates ==
  \A i, j \in 1..Len(result.weekend_workdays) :
    i # j => result.weekend_workdays[i].date # result.weekend_workdays[j].date

\* a scraper reported one date twice and the date is in the result
C5_Witness ==
  /\ served = "miss"
  /\ \E s \in WS :
       /\ ~inW[s].raised
       /\ Len(inW[s].dates) = 2
       /\ inW[s].dates[1] = inW[s].dates[2]
       /\ EntriesOn(result.weekend_workdays, inW[s].dates[1]) # {}

\* C6: no two entries of the holiday list of a result have the same date,
\* even if the accepted scraper returned a date twice.
C6_UniqueHolidayDates ==
  \A i, j \in 1..Len(result.holidays) :
    i # j => result.holidays[i].date # result.holidays[j].date

IsGet(y) == hist'.op \in {"get", "refetch"} /\ inY' = y /\ now' = now

\* the previous service operation was get_holidays(y)
LastWasGet(y) == hist.op \in {"get", "refetch"} /\ inY = y

\* C9 as stated: the second of two consecutive get_holidays(Y) calls less
\* than 3600 seconds apart, no clear_cache between them, returns the content
\* the first returned and calls no scraper.
C9_WithinTtlOfPreviousCall ==
  [][\A y \in Years :
       (IsGet(y) /\ LastWasGet(y) /\ now - hist.at < ttl) =>
         (result' = result /\ log' = <<>>)]_vars

\* C9 amended: the second of two consecutive get_holidays(Y) calls, no
\* clear_cache between them, made less than 3600 seconds after the response
\* for Y was computed and stored, returns the content the first returned
\* (the stored response) and calls no scraper.
C9_WithinTtlOfStore ==
  [][\A y \in Years :
       (IsGet(y) /\ LastWasGet(y) /\ hist.stored[y] >= 0 /\ now - hist.stored[y] < ttl) =>
         (result' = result /\ log' = <<>> /\ served' = "hit")]_vars

\* a request served from the cache in the last second of the entry's life
C9_Witness ==
  /\ served = "hit"
  /\ log = <<>>
  /\ hist.stored[inY] >= 0
  /\ now - hist.stored[inY] = ttl - 1

\* C10: after clear_cache the cache has no entry for any year, and the next
\* get_holidays(Y) runs the whole pipeline again: it calls the first-ranked
\* holiday scraper and every workday scraper and builds a fresh response.
C10_ClearForcesPipeline ==
  [][/\ hist'.op = "clear" => cache' = <<>>
     /\ \A y \in Years :
          (IsGet(y) /\ hist.op = "clear") =>
            /\ served' = "miss"
            /\ log' # <<>>
            /\ log'[1] = Call("holiday",
                              get_scrapers_for_year(holiday_scrapers, y, currentYear)[1],
                              "scrape_holidays", log'[1].raised)
            /\ \A s \in WS : \E k \in 1..Len(log') :
                 log'[k].list = "workday" /\ log'[k].src = s
            /\ result'.source.scraped_at = now]_vars

\* a year with a live entry was cleared and requested again: the scrapers ran
C10_Witness ==
  /\ hist.op = "refetch"
  /\ served = "miss"
  /\ log # <<>>

\* no holiday scraper and no workday scraper has anything for the request:
\* each raises or returns an empty list
NothingFromH == \A s \in HS : inH[s].raised \/ inH[s].dates = <<>>

NothingFromW == \A s \in WS : inW[s].raised \/ inW[s].dates = <<>>

\* C11: when every holiday scraper and every workday scraper raises or
\* returns an empty list, get_holidays(Y) returns a response with year Y,
\* no holidays, no weekend workdays, both totals 0 and the sentinel source:
\* name "None", empty url, year_coverage Y.
C11_EmptyResult ==
  (served = "miss" /\ NothingFromH /\ NothingFromW) =>
    /\ result.year = inY
    /\ result.holidays = <<>>
    /\ result.weekend_workdays = <<>>
    /\ result.total_holidays = 0
    /\ result.total_weekend_workdays = 0
    /\ result.source.name = "None"
    /\ result.source.url = [base |-> "", year |-> 0]
    /\ result.source.year_coverage = inY

\* a request served while one holiday scraper raised, the other returned an
\* empty list, and no workday scraper had anything
C11_Witness ==
  /\ served = "miss"
  /\ NothingFromH /\ NothingFromW
  /\ \E s \in HS : inH[s].raised
  /\ \E s \in HS : ~inH[s].raised
  /\ result.source.name = "None"

\* C12: a get_holidays(Y) call made 3600 seconds or more after a response
\* for Y was stored does not return that response: it calls the scrapers,
\* builds a new response and stores it, the one entry of Y, with a new
\* time to live.
C12_ExpiredNeverReturned ==
  [][\A y \in Years : \A i \in 1..Len(cache) :
       (IsGet(y) /\ cache[i].key = cache_key(y) /\ now >= cache[i].expires) =>
         /\ served' = "miss"
         /\ log' # <<>>
         /\ result' # cache[i].value
         /\ result'.source.scraped_at = now
         /\ \E j \in 1..Len(cache') :
              /\ cache'[j] = [key |-> cache_key(y), value |-> result', expires |-> now + ttl]
              /\ \A k \in 1..Len(cache') : cache'[k].key = cache_key(y) => k = j]_vars

\* a request made exactly 3600 seconds after the response of its year was
\* stored: the scrapers ran again
C12_Witness ==
  /\ hist.stale
  /\ served = "miss"
  /\ now = ttl
  /\ hist.stored[inY] = now
  /\ log # <<>>

\* C13: get_holidays(Y) always returns a response and never raises; when the
\* entry of Y disappears between the membership test and the read, the call
\* is served as a cache miss: the scrapers run and a response for Y returns.
C13_AlwaysReturns ==
  (~pending /\ served # "none") =>
    /\ served \in {"hit", "miss"}
    /\ result.year = inY

\* the sort key the ranking must follow, from the class attributes
EdgeLo(s) == currentYear + min_year_offset(s)

EdgeHi(s) == currentYear + max_year_offset(s)

InWindow(s) == EdgeLo(s) <= inY /\ inY <= EdgeHi(s)

\* least number of years from the requested year to a year of the window
YearsToWindow(s) ==
  CHOOSE d \in 0..20 :
    /\ \E y \in EdgeLo(s)..EdgeHi(s) : y = inY - d \/ y = inY + d
    /\ \A e \in 0..(d - 1) : ~\E y \in EdgeLo(s)..EdgeHi(s) : y = inY - e \/ y = inY + e

\* C14: the ranked list is a permutation of the list given (every scraper
\* once, none left out, supporting the year or not), in ascending order of
\* distance to the year, scrapers of equal distance in their order of
\* registration.
C14_RankIsStablePermutation ==
  rank.done =>
    /\ Len(rank.out) = Len(rank.in)
    /\ \A i \in 1..Len(rank.in) :
         Cardinality({j \in 1..Len(rank.out) : rank.out[j] = rank.in[i]}) = 1
    /\ \A i, j \in 1..Len(rank.out) :
         i < j =>
           /\ YearsToWindow(rank.out[i]) <= YearsToWindow(rank.out[j])
           /\ YearsToWindow(rank.out[i]) = YearsToWindow(rank.out[j]) =>
                \E a, b \in 1..Len(rank.in) :
                  a < b /\ rank.in[a] = rank.out[i] /\ rank.in[b] = rank.out[j]

\* three scrapers ranked: the last registered is nearest and goes first, the
\* other two are equally far, one of them not supporting the year, and stay
\* in registration order
C14_Witness ==
  /\ rank.done
  /\ Len(rank.in) = 3
  /\ rank.out = <<rank.in[3], rank.in[1], rank.in[2]>>
  /\ YearsToWindow(rank.in[1]) = YearsToWindow(rank.in[2])
  /\ YearsToWindow(rank.in[1]) > 0
  /\ min_year_offset(rank.in[1]) # min_year_offset(rank.in[2])

\* C15: for every scraper (min_year_offset <= max_year_offset), current
\* year and requested year Y, get_year_distance(Y) is a non-negative
\* integer, it is 0 exactly when supports_year(Y) is true, supports_year(Y)
\* is true exactly when current + min_year_offset <= Y <= current +
\* max_year_offset, and otherwise the distance is the lesser of
\* |Y - (current + min_year_offset)| and |Y - (current + max_year_offset)|.
C15_YearDistance ==
  rank.done =>
    \A i \in 1..Len(rank.in) :
      LET s  == rank.in[i]
          d  == rank.distance[i]
          dl == IF inY >= EdgeLo(s) THEN inY - EdgeLo(s) ELSE EdgeLo(s) - inY
          dh == IF inY >= EdgeHi(s) THEN inY - EdgeHi(s) ELSE EdgeHi(s) - inY
      IN  /\ d \in Nat
          /\ (d = 0) <=> rank.supports[i]
          /\ rank.supports[i] <=> InWindow(s)
          /\ ~rank.supports[i] => (d <= dl /\ d <= dh /\ d \in {dl, dh})

\* one list with a scraper whose window holds the year and one whose window
\* of two years or more ends before it: the distance is the one to the
\* nearer, upper edge
C15_Witness ==
  /\ rank.done
  /\ \E i, j \in 1..Len(rank.in) :
       /\ rank.supports[i] /\ rank.distance[i] = 0
       /\ ~rank.supports[j]
       /\ EdgeLo(rank.in[j]) < EdgeHi(rank.in[j])
       /\ inY > EdgeHi(rank.in[j])
       /\ rank.distance[j] = inY - EdgeHi(rank.in[j])

\* the calls the request made to the scrapers of the workday list, in order
WorkdayCalls == SelectSeq(log, LAMBDA c : c.list = "workday")

\* C16: on a cache miss the merger calls scrape_weekend_workdays of every
\* scraper of the ranked workday list exactly once, in rank order, whatever
\* earlier scrapers returned or raised; every date a scraper returned is in
\* the result, also when a scraper ranked before it raised.
C16_NoEarlyStop ==
  served = "miss" =>
    /\ WorkdayCalls =
         [i \in 1..Len(WRanked) |->
            Call("workday", WRanked[i], "scrape_weekend_workdays", inW[WRanked[i]].raised)]
    /\ \A s \in WS : \A d \in WDates :
         ReportedBy(s, d) => EntriesOn(result.weekend_workdays, d) # {}

\* the first-ranked workday scraper raised, the second was called after it
\* and its two dates are the result
C16_Witness ==
  /\ served = "miss"
  /\ inW[WRanked[1]].raised
  /\ Len(WorkdayCalls) = 2
  /\ WorkdayCalls[1].raised /\ ~WorkdayCalls[2].raised
  /\ Len(inW[WRanked[2]].dates) = 2
  /\ Len(result.weekend_workdays) = 2
  /\ \A k \in 1..2 : result.weekend_workdays[k].reason[1] = WRanked[2]

\* the calls the request made to the scrapers of the holiday list, in order
HolidayCalls == SelectSeq(log, LAMBDA c : c.list = "holiday")

\* the resolver accepted s: the last scraper it tried, whose scrape() returned
\* a non-empty holiday list
Accepted(s) ==
  /\ HolidayCalls # <<>>
  /\ HolidayCalls[Len(HolidayCalls)].src = s
  /\ NonEmptyH(s)
  /\ ~inH[s].wraised

\* C17: when the resolver accepts scraper S for year Y, the source of the
\* response has the name of S, the url S.get_url(Y) and year_coverage Y,
\* whatever the workday scrapers contributed; the source is the sentinel
\* "None" exactly when the holiday list of the response is empty.
C17_ProvenanceOfAcceptedSource ==
  served = "miss" =>
    /\ \A s \in HS :
         Accepted(s) =>
           /\ result.source.name = s
           /\ result.source.url = get_url(s, inY)
           /\ result.source.year_coverage = inY
           /\ result.holidays = ReturnedHolidays(s)
    /\ (result.source.name = "None") <=> (result.holidays = <<>>)
    /\ (result.source.name = "None") <=> ~\E s \in HS : Accepted(s)

\* the second-ranked holiday scraper was accepted after the first returned
\* an empty list, and the one workday of the response comes from a scraper
\* of another name
C17_Witness ==
  /\ served = "miss"
  /\ ~inH[HRanked[1]].raised /\ inH[HRanked[1]].dates = <<>>
  /\ Accepted(HRanked[2])
  /\ result.source.name = HRanked[2]
  /\ Len(result.weekend_workdays) = 1
  /\ result.weekend_workdays[1].reason[1] # HRanked[2]

\* this step is a date check
IsCheck == check'.op \in {"is_holiday", "is_weekend_workday"} /\ now' = now

\* the list has an entry of date d
DateIn(list, d) == {k \in 1..Len(list) : list[k].date = d} # {}

C19_YearsInRange ==
  /\ served \in {"hit", "miss"} => (MinYear <= inY /\ inY <= MaxYear)
  /\ \A i \in 1..Len(cache) :
       MinYear <= cache[i].value.year /\ cache[i].value.year <= MaxYear

HasEntry(c, y) == \E i \in 1..Len(c) : c[i].key = cache_key(y)

\* C22: the cache never holds more than 100 entries (one per year at most),
\* whatever years are requested among the 101 of 2000..2100; a store into a
\* full cache evicts an entry to make room, and a later request for a year
\* whose entry was evicted runs the scrapers again and returns a response for
\* that year.
C22_BoundedCache ==
  [][/\ Len(cache') <= maxsize
     /\ \A i, j \in 1..Len(cache') : cache'[i].key = cache'[j].key => i = j
     /\ \A y \in MinYear..MaxYear :
          (IsGet(y) /\ ~HasEntry(cache, y)) =>
            /\ served' = "miss"
            /\ log' # <<>>
            /\ result'.year = y
            /\ HasEntry(cache', y)
            /\ Len(cache) = maxsize =>
                 \E z \in Requested : HasEntry(cache, z) /\ ~HasEntry(cache', z)]_vars

\* the first year, evicted from the full cache, was requested again and
\* computed again, another year making room for it
C22_Witness ==
  /\ served = "miss"
  /\ inY = MinYear
  /\ Len(cache) = maxsize
  /\ cache[maxsize].key = cache_key(MinYear)
  /\ Cardinality(Requested) = 101
  /\ ~HasEntry(cache, MinYear + 1)

\* C23: the weekend-workday list of every result is in strictly ascending
\* date order, whatever the rank of the scraper each entry came from and
\* whatever order each scraper listed its entries in.
C23_WorkdaysAscending ==
  \A i, j \in 1..Len(result.weekend_workdays) :
    i < j => result.weekend_workdays[i].date < result.weekend_workdays[j].date

\* the first-ranked scraper listed two dates latest first and the second
\* added an earlier one: three entries, the first of them from the second
\* scraper
C23_Witness ==
  /\ served = "miss"
  /\ ~inW[WRanked[1]].raised
  /\ Len(inW[WRanked[1]].dates) = 2
  /\ inW[WRanked[1]].dates[1] > inW[WRanked[1]].dates[2]
  /\ Len(result.weekend_workdays) = 3
  /\ result.weekend_workdays[1].reason[1] = WRanked[2]
  /\ result.weekend_workdays[2].reason = <<WRanked[1], 2>>
  /\ result.weekend_workdays[3].reason = <<WRanked[1], 1>>

C25_ResponseConsistent ==
  /\ served # "none" =>
       /\ result.year = inY
       /\ result.total_holidays = Len(result.holidays)
       /\ result.total_weekend_workdays = Len(result.weekend_workdays)
  /\ \A e \in 1..Len(cache) :
       /\ cache[e].key = cache_key(cache[e].value.year)
       /\ cache[e].value.total_holidays = Len(cache[e].value.holidays)
       /\ cache[e].value.total_weekend_workdays = Len(cache[e].value.weekend_workdays)

\* a response with one holiday and one workday served from a cache that
\* holds the response of the other year as well
C25_Witness ==
  /\ served = "hit"
  /\ Len(cache) = 2
  /\ result.year = inY
  /\ result.total_holidays = 1
  /\ result.total_weekend_workdays = 1
  /\ cache[1].value.year # inY

\* the scrapers tried so far by the request under way, per list, in order
HolidayAttempts == SelectSeq(req.attempts, LAMBDA a : a[1] = "holiday")

WorkdayAttempts == SelectSeq(req.attempts, LAMBDA a : a[1] = "workday")

\* the tries of a request: the holiday scrapers first, a prefix of the ranked
\* holiday list (each at most once, none again after it failed), then the
\* workday scrapers in rank order, all of them once the merger is through;
\* never more tries than the two lists are long; a request that missed the
\* cache ends with its response stored under its year
AttemptsInRankOrder ==
  /\ req.attempts = HolidayAttempts \o WorkdayAttempts
  /\ Len(HolidayAttempts) <= Len(HRanked)
  /\ \A k \in 1..Len(HolidayAttempts) : HolidayAttempts[k] = <<"holiday", HRanked[k]>>
  /\ Len(WorkdayAttempts) <= Len(WRanked)
  /\ \A k \in 1..Len(WorkdayAttempts) : WorkdayAttempts[k] = <<"workday", WRanked[k]>>
  /\ Len(req.attempts) <= Len(holiday_scrapers) + Len(workday_scrapers)
  /\ req.pc = "store" => Len(WorkdayAttempts) = Len(WRanked)
  /\ (req.pc = "done" /\ served = "miss") =>
       /\ Len(WorkdayAttempts) = Len(WRanked)
       /\ CacheContains(cache, cache_key(inY), now)
       /\ CacheValue(cache, cache_key(inY)) = result
  /\ (req.pc = "done" /\ served = "hit") => req.attempts = <<>>

\* C26: every get_holidays request terminates; on a cache miss each holiday
\* scraper is tried at most once and each workday scraper exactly once, one
\* at a time in rank order, none tried again after it failed, so at most
\* |holiday_scrapers| + |workday_scrapers| tries are made, after which the
\* request returns a result and stores it in the cache.
C26_RequestTerminates ==
  /\ []AttemptsInRankOrder
  /\ (req.pc = "lookup") ~> (req.pc = "done" /\ ~pending)

\* a request that took every try there is: both holiday scrapers failed, the
\* first workday scraper raised, and the result was stored
C26_Witness ==
  /\ req.pc = "done"
  /\ served = "miss"
  /\ Len(req.attempts) = Len(holiday_scrapers) + Len(workday_scrapers)
  /\ inH[HRanked[1]].raised
  /\ inW[WRanked[1]].raised
  /\ result.holidays = <<>>
  /\ Len(result.weekend_workdays) = 1
  /\ ticks > 0

\* what the steps of a request add up to is what get_holidays returns
StepsAgreeWithGetHolidays ==
  (req.pc = "done" /\ served = "miss") =>
    LET hr == scrape_holidays(inY, currentYear, inH, now)
        wr == scrape_workdays(inY, currentYear, inW)
    IN  /\ result.holidays = hr.holidays
        /\ result.weekend_workdays = wr.workdays
        /\ log = hr.log \o wr.log
        /\ (hr.source # <<>> => result.source = hr.source[1])

\* the fetch of scraper s of the holiday / workday list ended in an
\* httpx.HTTPError
FetchFailedH(s) == net.holiday[s].error

FetchFailedW(s) == net.workday[s].error

\* the scraper ranked right after position i of the holiday list, if there
\* is one, was tried as well
NextTriedH(i) == i < Len(HRanked) => InvokedH(HRanked[i + 1])

\* the built-in dataset a scraper falls back to when it has no page
BuiltInH(s, year) ==
  IF s = "PontosIdo.com" /\ year = 2025 THEN get_2025_holidays ELSE <<>>

BuiltInW(s, year) ==
  IF s = "PontosIdo.com" /\ year = 2025 THEN get_2025_workdays ELSE <<>>

\* C27 as stated: a scraper whose page fetch failed with an httpx.HTTPError
\* returns a list instead of raising, and the resolver / merger skips it and
\* moves on to the next ranked scraper as for a scraper that found no data.
C27_FailedFetchSkipped ==
  served = "miss" =>
    /\ \A i \in 1..Len(HRanked) :
         (FetchFailedH(HRanked[i]) /\ InvokedH(HRanked[i])) =>
           /\ ~inH[HRanked[i]].raised
           /\ result.source.name # HRanked[i]
           /\ NextTriedH(i)
    /\ \A s \in WS :
         FetchFailedW(s) => ~inW[s].raised /\ Len(WorkdayCalls) = Len(WRanked)

\* C27 (amended): a scraper whose page fetch failed with an httpx.HTTPError
\* returns a list instead of raising: the empty list, or its built-in dataset
\* where it has one for the year.  With the empty list the resolver moves on
\* to the next ranked scraper as for a scraper that found no data; with the
\* built-in dataset it accepts the scraper, and the result is that dataset.
\* The merger goes through every workday scraper either way and adds the
\* built-in workdays like scraped ones.
C27_FailedFetchReturnsList ==
  served = "miss" =>
    /\ \A i \in 1..Len(HRanked) :
         LET s == HRanked[i]
         IN  FetchFailedH(s) =>
               /\ ~inH[s].raised
               /\ inH[s].dates = BuiltInH(s, inY)
               /\ (InvokedH(s) /\ inH[s].dates = <<>>) =>
                    /\ result.source.name # s
                    /\ NextTriedH(i)
               /\ (InvokedH(s) /\ inH[s].dates # <<>>) =>
                    /\ result.source.name = s
                    /\ result.holidays = ReturnedHolidays(s)
                    /\ \A j \in (i + 1)..Len(HRanked) : ~InvokedH(HRanked[j])
    /\ \A s \in WS :
         FetchFailedW(s) =>
           /\ ~inW[s].raised
           /\ inW[s].dates = BuiltInW(s, inY)
           /\ Len(WorkdayCalls) = Len(WRanked)
           /\ \A k \in 1..Len(inW[s].dates) :
                EntriesOn(result.weekend_workdays, inW[s].dates[k]) # {}

\* the fetch of the first-ranked holiday scraper failed, the second-ranked
\* one was tried and accepted; the fetch of the first-ranked workday scraper
\* failed and the second one contributed the workday of the result
C27_Witness ==
  /\ served = "miss"
  /\ FetchFailedH(HRanked[1])
  /\ inH[HRanked[1]].dates = <<>>
  /\ InvokedH(HRanked[2])
  /\ result.source.name = HRanked[2]
  /\ result.holidays # <<>>
  /\ FetchFailedW(WRanked[1])
  /\ inW[WRanked[1]].dates = <<>>
  /\ Len(result.weekend_workdays) = 1
  /\ result.weekend_workdays[1].reason[1] = WRanked[2]

\* a list of dates without duplicates, sorted ascending
StrictlyAscending(ds) == \A i, j \in 1..Len(ds) : i < j => ds[i] < ds[j]

\* C30: PontosIdo's scrape_holidays(2025) always contains the 16 built-in
\* 2025 holiday dates and its scrape_weekend_workdays(2025) the three
\* built-in Saturdays, whether the fetch fails or succeeds and whatever the
\* page lists, each list without duplicate dates and sorted ascending; for
\* any other year a failed fetch yields an empty list.  So while 2025 is in
\* PontosIdo's window (distance 0, rank 1), get_holidays(2025) has a
\* non-empty holiday list and not the sentinel source.
C30_Static2025 ==
  served = "miss" =>
    LET p == "PontosIdo.com"
    IN  /\ ~inH[p].raised /\ ~inW[p].raised
        /\ StrictlyAscending(inH[p].dates)
        /\ StrictlyAscending(inW[p].dates)
        /\ inY = 2025 =>
             /\ \A k \in 1..16 : InSeq(inH[p].dates, get_2025_holidays[k])
             /\ \A d \in {20250517, 20251018, 20251213} : InSeq(inW[p].dates, d)
        /\ (inY # 2025 /\ FetchFailedH(p)) => inH[p].dates = <<>>
        /\ (inY # 2025 /\ FetchFailedW(p)) => inW[p].dates = <<>>
        /\ (inY = 2025 /\ get_year_distance(p, 2025, currentYear) = 0) =>
             /\ HRanked[1] = p
             /\ result.holidays # <<>>
             /\ result.source.name = p

\* the page listed 1 May (a built-in date) and then 2 January (not one): 17
\* holidays, 2 January first; the workday page listed 17 May twice
C30_Witness ==
  /\ served = "miss"
  /\ inY = 2025
  /\ net.holiday["PontosIdo.com"] =
       Page(<<Entry(20250501, "unnepnap"), Entry(20250102, "pihenonap")>>)
  /\ net.workday["PontosIdo.com"] =
       Page(<<Entry(20250517, "athelyezett munkanap"), Entry(20250517, "athelyezett munkanap")>>)
  /\ Len(result.holidays) = 17
  /\ result.holidays[2].date = 20250102
  /\ Len(inW["PontosIdo.com"].dates) = 3
  /\ result.source.name = "PontosIdo.com"

\* the values of the variable that, trimmed and lower-cased, are 1, true or yes
TruthyEnvValues ==
  {<<"1">>, <<"t", "r", "u", "e">>, <<"y", "e", "s">>,
   <<" ", "T", "r", "u", "e", "\n">>, <<"Y", "E", "S">>, <<"\t", "1", " ">>}

\* C28: whether PublicHolidays.hu is in the workday list is decided once, at
\* the construction of the HolidayService: it is there, appended last, if and
\* only if INCLUDE_PUBLICHOLIDAYS_FOR_WORKDAYS, trimmed and lower-cased, is
\* 1, true or yes at that moment; no later request, clear_cache call or
\* change of the variable alters holiday_scrapers or workday_scrapers.
C28_ListsFixedAtConstruction ==
  [][/\ (~Built /\ svc' # NoService) =>
          /\ svc'.holiday_scrapers = <<"PontosIdo.com", "PublicHolidays.hu">>
          /\ svc'.workday_scrapers =
               <<"PontosIdo.com", "DailyNewsHungary">>
                 \o (IF env \in TruthyEnvValues THEN <<"PublicHolidays.hu">> ELSE <<>>)
     /\ Built => svc' = svc]_vars

\* built while the variable had an accepted value: PublicHolidays.hu is the
\* third workday scraper and was asked by a request for 2026; by now the
\* variable reads 0 and the cache was cleared
C28_Witness ==
  /\ Built
  /\ workday_scrapers = <<"PontosIdo.com", "DailyNewsHungary", "PublicHolidays.hu">>
  /\ holiday_scrapers = <<"PontosIdo.com", "PublicHolidays.hu">>
  /\ env = <<"0">>
  /\ served = "miss"
  /\ inY = 2026
  /\ \E k \in 1..Len(log) : log[k].list = "workday" /\ log[k].src = "PublicHolidays.hu"
  /\ hist.op = "clear"

\* a response built when scrapers failed: no holidays (the sentinel source)
\* or no workdays
FailureResult(v) == v.holidays = <<>> \/ v.weekend_workdays = <<>>

\* this step ends a get_holidays(y) call (made on its own or by is_holiday /
\* is_weekend_workday) that began while the entry e of the cache was live:
\* a call in one step, or the read of a call whose membership test found e
EndsCallBegunWhileLive(y, e) ==
  /\ e.key = cache_key(y)
  /\ inY' = y
  /\ ~pending'
  /\ hist'.op \in {"get", "refetch"}
  /\ \/ ~pending /\ now' = now /\ now < e.expires
     \/ pending /\ served = "found" /\ inY = y

\* C29: a failure result is cached like any other: once get_holidays(Y) has
\* stored an empty or partial result, every further get_holidays(Y),
\* is_holiday or is_weekend_workday call for that year begun within the next
\* 3600 seconds, with no clear_cache or eviction in between, returns that
\* same result and calls no scraper.
C29_FailureResultsReused ==
  [][\A y \in Years : \A i \in 1..Len(cache) :
       (EndsCallBegunWhileLive(y, cache[i]) /\ FailureResult(cache[i].value)) =>
         /\ served' = "hit"
         /\ result' = cache[i].value
         /\ log' = <<>>]_vars

====
